---- MODULE Spec2Model ----
(***************************************************************************)
(* Model of pharma-research-extractor: the text utilities (text_utils.py), *)
(* the PubMed client (pubmed_client.py), the output writer (output.py),    *)
(* the validators (validation.py) and the command line driver (cli.py).    *)
(*                                                                         *)
(* Python strings are TLA+ strings; an optional text (the result of        *)
(* findtext, or the .text of an element) is a sequence of at most one      *)
(* string: <<>> is None, <<"x">> is the text "x".                          *)
(***************************************************************************)
EXTENDS Integers, Sequences, FiniteSets, TLC

VARIABLES
    pc,                    \* position of the run: see the actions
    query, file, format,   \* command line arguments of main
    attempt, retry_delay,  \* search: loop counter and current backoff delay
    requests, sleeps,      \* search/fetch: HTTP requests issued, sleeps taken (seconds)
    session,               \* (query_key, webenv) returned by search, <<>> before
    doc,                   \* the parsed document: sequence of PubmedArticle elements
    ai, ui,                \* _parse_xml_response / _extract_article_data loop indices
    pmid, title, pub_date, \* _extract_article_data locals
    non_academic_authors, affiliations, corresponding_email,
    results,               \* _parse_xml_response accumulator / fetch_details result
    disk,                  \* content of the output file: <<>> if never written, else <<rows>>
    fault,                 \* the failure of the environment the run has not recovered from, or ""
    raised,                \* class of the exception that ended the run, "" if none
    exit_code,             \* process exit code, -1 while running
    log,                   \* history: <<[doc, results]>> of the parses that returned
    arg, called, ret       \* the text utilities called on their own

vars == <<pc, query, file, format, attempt, retry_delay, requests, sleeps, session,
          doc, ai, ui, pmid, title, pub_date, non_academic_authors, affiliations,
          corresponding_email, results, disk, fault, raised, exit_code, log,
          arg, called, ret>>

(***************************************************************************)
(* Bounds of the model.                                                    *)
(***************************************************************************)
MaxStrLen == 4      \* longest text handed to a text utility on its own
MaxAuthors == 2     \* most Author elements of an article
MaxArticles == 2    \* most PubmedArticle elements of a document
MaxParses == 3            \* parses of one client in a row

(***************************************************************************)
(* Python string primitives.                                               *)
(***************************************************************************)
Char(s, i) == SubSeq(s, i, i)

Whitespace == {" ", "\t", "\n"}

UpperCase == "ABCDEFGHIJKLMNOPQRSTUVWXYZ"
LowerCase == "abcdefghijklmnopqrstuvwxyz"
Digits == "0123456789"

InStr(c, s) == \E i \in 1..Len(s) : Char(s, i) = c

ToLowerChar(c) ==
    IF InStr(c, UpperCase)
    THEN Char(LowerCase, CHOOSE i \in 1..Len(UpperCase) : Char(UpperCase, i) = c)
    ELSE c

\* str.lower()
RECURSIVE lower(_)
lower(s) == IF s = "" THEN "" ELSE ToLowerChar(Head(s)) \o lower(Tail(s))

\* `sub in s`, scanning the start positions from `from`
RECURSIVE FindFrom(_, _, _)
FindFrom(s, sub, from) ==
    IF from + Len(sub) - 1 > Len(s) THEN FALSE
    ELSE IF SubSeq(s, from, from + Len(sub) - 1) = sub THEN TRUE
    ELSE FindFrom(s, sub, from + 1)

Contains(s, sub) == FindFrom(s, sub, 1)

\* str.strip(chars) / str.strip(): drop leading, then trailing, members of chars
RECURSIVE LStrip(_, _)
LStrip(s, chars) ==
    IF s # "" /\ Head(s) \in chars THEN LStrip(Tail(s), chars) ELSE s

RECURSIVE RStrip(_, _)
RStrip(s, chars) ==
    IF s # "" /\ Char(s, Len(s)) \in chars
    THEN RStrip(SubSeq(s, 1, Len(s) - 1), chars) ELSE s

Strip(s, chars) == RStrip(LStrip(s, chars), chars)

strip(s) == Strip(s, Whitespace)

\* str.split(): the maximal runs of non-whitespace characters, in order
RECURSIVE SplitWs(_, _)
SplitWs(s, cur) ==
    IF s = "" THEN (IF cur = "" THEN <<>> ELSE <<cur>>)
    ELSE IF Head(s) \in Whitespace
         THEN (IF cur = "" THEN <<>> ELSE <<cur>>) \o SplitWs(Tail(s), "")
         ELSE SplitWs(Tail(s), cur \o Head(s))

split(s) == SplitWs(s, "")

\* sep.join(parts)
RECURSIVE join(_, _)
join(sep, parts) ==
    IF parts = <<>> THEN ""
    ELSE IF Len(parts) = 1 THEN parts[1]
    ELSE parts[1] \o sep \o join(sep, Tail(parts))

\* findtext(...) or default / a falsy text
Truthy(opt) == opt # <<>> /\ opt[1] # ""
OrElse(opt, default) == IF Truthy(opt) THEN opt[1] ELSE default

(***************************************************************************)
(* config.py                                                               *)
(***************************************************************************)
ACADEMIC_KEYWORDS ==
    << "school", "university", "college", "institute", "department", "faculty",
       "academy", "center", "centre", "hospital", "medical", "clinic", "grad",
       "postdoc", "fellow", "professor", "lecturer", "phd", "student", "library",
       "conservatory", "polytechnic", "laboratory", "lab" >>

CSV_FIELDNAMES ==
    << "PubmedID", "Title", "Publication Date",
       "Non-academicAuthor(s)", "CompanyAffiliation(s)", "Corresponding Author Email" >>

(***************************************************************************)
(* text_utils.py                                                           *)
(***************************************************************************)
\* any(keyword in affil for keyword in ACADEMIC_KEYWORDS), from keyword k on
RECURSIVE AnyKeywordFrom(_, _)
AnyKeywordFrom(affil, k) ==
    IF k > Len(ACADEMIC_KEYWORDS) THEN FALSE
    ELSE IF Contains(affil, ACADEMIC_KEYWORDS[k]) THEN TRUE
    ELSE AnyKeywordFrom(affil, k + 1)

\* a plausible slip: the case-insensitive step is left out
is_academic_affiliation_case_sensitive(affil) == AnyKeywordFrom(affil, 1)

is_academic_affiliation(affil) == AnyKeywordFrom(lower(affil), 1)

EmailStripChars == {";", ".", ",", "(", ")", "<", ">"}

\* the for loop of extract_email over the words, from word w on
RECURSIVE FirstEmailWord(_, _)
FirstEmailWord(words, w) ==
    IF w > Len(words) THEN ""
    ELSE IF Contains(words[w], "@") /\ Contains(words[w], ".")
         THEN Strip(words[w], EmailStripChars)
         ELSE FirstEmailWord(words, w + 1)

\* a plausible slip: the surrounding punctuation is not stripped
extract_email_unstripped(affil_text) ==
    LET words == split(affil_text)
        hit == {w \in 1..Len(words) : Contains(words[w], "@") /\ Contains(words[w], ".")}
    IN IF hit = {} THEN "" ELSE words[CHOOSE w \in hit : \A v \in hit : w <= v]

extract_email(affil_text) ==
    IF affil_text = "" THEN "" ELSE FirstEmailWord(split(affil_text), 1)

\* `if not title: return "N/A"`, else title.strip()
clean_title(t) == IF ~Truthy(t) THEN "N/A" ELSE strip(t[1])

format_publication_date(year, month, day) ==
    Strip(join("-", SelectSeq(<<year, month, day>>, LAMBDA part : part # "")), {"-"})

(***************************************************************************)
(* The text utilities called on their own, on every text over a small      *)
(* alphabet: letters of the keyword "lab" in both cases for the            *)
(* classifier, and '@', '.', blanks and strip characters for the email     *)
(* scan.                                                                   *)
(***************************************************************************)
ClassifyAlphabet == {"l", "a", "b", "L", "B", "x", " "}
EmailAlphabet == {"a", "@", ".", " ", ";", "\t"}

RECURSIVE Strings(_, _)
Strings(alphabet, n) ==
    IF n = 0 THEN {""}
    ELSE {""} \cup {c \o s : c \in alphabet, s \in Strings(alphabet, n - 1)}

TextInputs == Strings(ClassifyAlphabet, MaxStrLen) \cup Strings(EmailAlphabet, MaxStrLen)

(***************************************************************************)
(* The efetch document.  An Author element is its ForeName and LastName    *)
(* texts and the texts of its AffiliationInfo/Affiliation elements in      *)
(* document order; a PubmedArticle is its PMID and ArticleTitle texts, its *)
(* PubDate element (absent, or Year/Month/Day texts) and its Author        *)
(* elements in document order.                                             *)
(***************************************************************************)
Author(fore, last, affils) == [fore |-> fore, last |-> last, affils |-> affils]

Industry == Author(<<"Ann">>, <<"Lee">>, << <<"Pfizer Inc, a@p.com">> >>)
Academic == Author(<<"Bob">>, <<"Roy">>, << <<"Yale University (b@y.edu).">> >>)
Listed == Author(<<"Cy">>, <<>>, << <<"Acme Corp; Basel">> >>)
Nameless == Author(<<>>, <<"">>, << <<" Novo\n">> >>)
Unaffiliated == Author(<<"Dee">>, <<"Fox">>, <<>>)
NoText == Author(<<"Eve">>, <<"Kim">>, << <<>> >>)
Blank == Author(<<"Gus">>, <<"Lim">>, << <<"  ">>, <<"Lilly g@l.com">> >>)
Moved == Author(<<"Hal">>, <<"Ng">>, << <<"MIT Lab">>, <<"Roche h@r.ch">> >>)
Second == Author(<<"Ian">>, <<"Orr">>, << <<"Bayer <i@b.de>">> >>)

AuthorPool ==
    {Industry, Academic, Listed, Nameless, Unaffiliated, NoText, Blank, Moved, Second}

SeqsUpTo(S, n) == UNION {[1..k -> S] : k \in 0..n}

Article(p, t, d, as) == [pmid |-> p, title |-> t, pubdate |-> d, authors |-> as]

PubDate(y, m, d) == [year |-> y, month |-> m, day |-> d]

\* one article, every list of authors
AuthorArticles ==
    {Article(<<"7">>, <<"T">>, <<>>, as) : as \in SeqsUpTo(AuthorPool, MaxAuthors)}

\* one article, every shape of the identifier, title and date
PmidTexts == {<<>>, <<"7">>, <<"PMC7">>}
TitleTexts == {<<>>, <<"">>, <<" T ">>, <<"  ">>}
PubDates ==
    {<<>>} \cup {<<PubDate(y, m, d)>> : y \in {<<>>, <<"2020">>},
                                        m \in {<<>>, <<"05">>, <<"">>},
                                        d \in {<<>>, <<"17">>}}
FieldArticles == {Article(p, t, d, <<Industry>>) : p \in PmidTexts, t \in TitleTexts, d \in PubDates}

\* several articles
BatchArticles ==
    { Article(<<"1">>, <<"T1">>, <<>>, <<Industry>>),
      Article(<<"2">>, <<"T2">>, <<>>, <<Academic>>),
      Article(<<"3">>, <<"T3">>, <<>>, <<NoText>>),
      Article(<<"4">>, <<"T4">>, <<>>, <<Listed>>),
      Article(<<"PMC5">>, <<"T5">>, <<>>, <<Academic, Second>>),
      Article(<<"6">>, <<"T6">>, <<>>, <<Second, Nameless>>) }

\* the documents of the command line runs, and those handed to the parser directly
BatchDocs == SeqsUpTo(BatchArticles, MaxArticles)
ParseDocs == BatchDocs \cup {<<a>> : a \in AuthorArticles \cup FieldArticles}

(***************************************************************************)
(* validation.py                                                           *)
(***************************************************************************)
MAX_QUERY_LEN == 1000
MAX_FILENAME_LEN == 255

DangerousChars == {"<", ">", "\"", "'", "&"}
InvalidFilenameChars == {"<", ">", ":", "\"", "/", "\\", "|", "?", "*", "\t", "\n"}

HasCharIn(s, chars) == \E i \in 1..Len(s) : Char(s, i) \in chars

\* validate_query raises ValidationError unless this holds; it returns query.strip()
QueryValid(q) ==
    /\ q # ""
    /\ Len(strip(q)) >= 2
    /\ Len(strip(q)) <= MAX_QUERY_LEN
    /\ ~HasCharIn(strip(q), DangerousChars)

\* validate_filename raises ValidationError unless this holds; it returns filename.strip()
FilenameValid(f) ==
    /\ f # ""
    /\ ~HasCharIn(strip(f), InvalidFilenameChars)
    /\ Len(strip(f)) <= MAX_FILENAME_LEN
    /\ Contains(strip(f), ".")

\* validate_format raises ValidationError unless this holds; it returns the
\* lower-cased, stripped format
FormatValid(f) == f # "" /\ strip(lower(f)) \in {"csv", "json"}

\* str.isdigit()
IsDigit(s) == s # "" /\ \A i \in 1..Len(s) : InStr(Char(s, i), Digits)

\* re.match(r'^[a-zA-Z0-9._%+-]+@[a-zA-Z0-9.-]+\.[a-zA-Z]{2,}$', email)
IsLetter(c) == InStr(c, UpperCase) \/ InStr(c, LowerCase)
IsAlnum(c) == IsLetter(c) \/ InStr(c, Digits)
EmailPatternMatches(e) ==
    \E at \in 2..Len(e), dot \in 4..Len(e) - 2 :
        /\ at + 1 < dot
        /\ Char(e, at) = "@"
        /\ Char(e, dot) = "."
        /\ \A i \in 1..at - 1 : IsAlnum(Char(e, i)) \/ Char(e, i) \in {".", "_", "%", "+", "-"}
        /\ \A i \in at + 1..dot - 1 : IsAlnum(Char(e, i)) \/ Char(e, i) \in {".", "-"}
        /\ \A i \in dot + 1..Len(e) : IsLetter(Char(e, i))

\* validate_article_data raises ValidationError unless this holds
\* a plausible slip: the PMID format test left out, every article passes
ArticleDataValidAlways(a) == TRUE

ArticleDataValid(a) == strip(a.PubmedID) = "N/A" \/ IsDigit(strip(a.PubmedID))

validate_article_data(a) ==
    [ PubmedID |-> strip(a.PubmedID),
      Title |-> strip(a.Title),
      PublicationDate |-> strip(a.PublicationDate),
      NonAcademicAuthors |-> strip(a.NonAcademicAuthors),
      CompanyAffiliations |-> strip(a.CompanyAffiliations),
      CorrespondingAuthorEmail |->
          LET email == strip(a.CorrespondingAuthorEmail)
          IN IF email # "" /\ email # "N/A" /\ ~EmailPatternMatches(email)
             THEN "" ELSE email ]

(***************************************************************************)
(* pubmed_client.py: extraction                                            *)
(***************************************************************************)
\* affil_elem.text is None for the first Affiliation element: .strip() raises
\* AttributeError
AuthorRaises(author) == author.affils # <<>> /\ author.affils[1] = <<>>

\* author.find(".//AffiliationInfo/Affiliation"), its text stripped; "" if absent
\* a plausible slip: the last Affiliation node of the author is taken
FirstAffiliationLast(author) ==
    IF author.affils = <<>> THEN "" ELSE strip(author.affils[Len(author.affils)][1])

FirstAffiliation(author) ==
    IF author.affils = <<>> THEN "" ELSE strip(author.affils[1][1])

_extract_author_data(author) ==
    LET fore == OrElse(author.fore, "")
        last == OrElse(author.last, "")
        affiliation == FirstAffiliation(author)
    IN [ full_name |-> strip(fore \o " " \o last),
         affiliation |-> affiliation,
         email |-> IF affiliation # "" THEN extract_email(affiliation) ELSE "" ]

\* a plausible slip: a later author's email replaces the one recorded
NextEmailLastWins(email, author_data) ==
    IF author_data.email # "" THEN author_data.email ELSE email

\* `if author_data["email"] and not corresponding_email`
NextEmail(email, author_data) ==
    IF author_data.email # "" /\ email = "" THEN author_data.email ELSE email

\* `if author_data["affiliation"] and not is_academic_affiliation(...)`
\* a plausible slip: the emptiness test of the affiliation left out
IsNonAcademicNoEmptyTest(author_data) == ~is_academic_affiliation(author_data.affiliation)

IsNonAcademic(author_data) ==
    author_data.affiliation # "" /\ ~is_academic_affiliation(author_data.affiliation)

\* a plausible slip: the affiliation is recorded for every affiliated author
NextAffiliationsAll(affils, author_data) ==
    IF author_data.affiliation # "" THEN Append(affils, author_data.affiliation) ELSE affils

NextAffiliations(affils, author_data) ==
    IF IsNonAcademic(author_data) THEN Append(affils, author_data.affiliation) ELSE affils

NextAuthors(names, author_data) ==
    IF IsNonAcademic(author_data) THEN Append(names, author_data.full_name) ELSE names

\* the PubDate sub-fields, each "" when it or the PubDate element is absent
DatePart(pubdate, part) ==
    IF pubdate = <<>> THEN ""
    ELSE OrElse(CASE part = "Year" -> pubdate[1].year
                  [] part = "Month" -> pubdate[1].month
                  [] OTHER -> pubdate[1].day, "")

\* the dictionary appended to results for a kept article
ResultRecord(id, t, date, names, affils, email) ==
    [ PubmedID |-> id,
      Title |-> t,
      PublicationDate |-> date,
      NonAcademicAuthors |-> join("; ", names),
      CompanyAffiliations |-> join("; ", affils),
      CorrespondingAuthorEmail |-> email ]

(***************************************************************************)
(* cli.py: the except clauses of main, by class of the exception raised    *)
(***************************************************************************)
ExitCodeFor(exc) ==
    CASE exc = "ValidationError" -> 2
      [] exc = "NetworkError" -> 3
      [] exc = "PubMedAPIError" -> 4
      [] exc = "DataProcessingError" -> 5
      [] exc = "OutputError" -> 6
      [] exc = "KeyboardInterrupt" -> 130
      [] OTHER -> 1

\* the exception propagates to main, which prints and exits
Exit(exc) ==
    /\ raised' = exc
    /\ exit_code' = ExitCodeFor(exc)
    /\ pc' = "done"

\* main returns normally
ExitSuccess ==
    /\ raised' = ""
    /\ exit_code' = 0
    /\ pc' = "done"

(***************************************************************************)
(* State                                                                   *)
(***************************************************************************)
Queries == {"flu ", "", "x", "a&b"}
Files == {"out.csv", "out", ""}
Formats == {"csv", "JSON ", "xml", ""}

\* the output file before the run: absent, or left by an earlier run
OldFile == [kind |-> "old", rows |-> <<>>]

textVars == <<arg, called, ret>>
argVars == <<query, file, format>>
searchVars == <<attempt, retry_delay, sleeps, session>>
articleVars == <<pmid, title, pub_date, non_academic_authors, affiliations,
                 corresponding_email, ui>>
parseVars == <<doc, ai, results>>

Idle ==
    /\ attempt = 0 /\ retry_delay = 0 /\ requests = 0 /\ sleeps = <<>>
    /\ session = <<>>
    /\ doc = <<>> /\ ai = 0 /\ ui = 0
    /\ pmid = "" /\ title = "" /\ pub_date = ""
    /\ non_academic_authors = <<>> /\ affiliations = <<>> /\ corresponding_email = ""
    /\ results = <<>>
    /\ fault = "" /\ raised = "" /\ exit_code = -1 /\ log = <<>>

Init ==
    /\ pc = "main"
    /\ query \in Queries /\ file \in Files /\ format \in Formats
    /\ disk \in {<<>>, <<OldFile>>}
    /\ arg = "" /\ called = "none" /\ ret = <<>>
    /\ Idle

(***************************************************************************)
(* cli.py: main, up to the search call                                     *)
(***************************************************************************)
\* a plausible slip: the arguments are cleaned but their validity is not tested
MainValidateUnchecked ==
    /\ pc = "main"
    /\ query' = strip(query)
    /\ file' = strip(file)
    /\ format' = strip(lower(format))
    /\ pc' = "search"
    /\ UNCHANGED <<raised, exit_code>>
    /\ UNCHANGED <<searchVars, requests, parseVars, articleVars, disk, fault, textVars, log>>

MainValidate ==
    /\ pc = "main"
    /\ IF QueryValid(query) /\ FilenameValid(file) /\ FormatValid(format)
       THEN /\ query' = strip(query)
            /\ file' = strip(file)
            /\ format' = strip(lower(format))
            /\ pc' = "search"
            /\ UNCHANGED <<raised, exit_code>>
       ELSE /\ Exit("ValidationError")
            /\ UNCHANGED argVars
    /\ UNCHANGED <<searchVars, requests, parseVars, articleVars, disk, fault, textVars, log>>

(***************************************************************************)
(* pubmed_client.py: search                                                *)
(***************************************************************************)
DEFAULT_SEARCH_LIMIT == 20
MIN_BATCH_SIZE == 1
MAX_BATCH_SIZE == 10000
max_retries == 3
INITIAL_RETRY_DELAY == 1

BatchSizeValid(n, min_size, max_size) == n >= min_size /\ n <= max_size

\* the validation at the head of search, then the loop is entered
SearchBegin ==
    /\ pc = "search"
    /\ IF QueryValid(query) /\ BatchSizeValid(DEFAULT_SEARCH_LIMIT, MIN_BATCH_SIZE, MAX_BATCH_SIZE)
       THEN /\ attempt' = 0
            /\ retry_delay' = INITIAL_RETRY_DELAY
            /\ pc' = "search_loop"
            /\ UNCHANGED <<raised, exit_code>>
       ELSE /\ Exit("ValidationError")
            /\ UNCHANGED <<attempt, retry_delay>>
    /\ UNCHANGED <<argVars, sleeps, session, requests, parseVars, articleVars, disk,
                   fault, textVars, log>>

\* `if attempt < max_retries - 1`: sleep, then the next iteration; else raise exc
\* a plausible slip: the last-attempt test left out, a failure is always retried
RetryAlways(wait, next_delay, exc) ==
    /\ sleeps' = Append(sleeps, wait)
    /\ retry_delay' = next_delay
    /\ attempt' = attempt + 1
    /\ UNCHANGED <<pc, raised, exit_code>>

\* a plausible slip: the delay is not doubled, every sleep lasts retry_delay
RetryOrRaiseFixedDelay(wait, next_delay, exc) ==
    IF attempt < max_retries - 1
    THEN /\ sleeps' = Append(sleeps, retry_delay)
         /\ retry_delay' = retry_delay
         /\ attempt' = attempt + 1
         /\ UNCHANGED <<pc, raised, exit_code>>
    ELSE /\ Exit(exc)
         /\ UNCHANGED <<sleeps, retry_delay, attempt>>

RetryOrRaise(wait, next_delay, exc) ==
    IF attempt < max_retries - 1
    THEN /\ sleeps' = Append(sleeps, wait)
         /\ retry_delay' = next_delay
         /\ attempt' = attempt + 1
         /\ UNCHANGED <<pc, raised, exit_code>>
    ELSE /\ Exit(exc)
         /\ UNCHANGED <<sleeps, retry_delay, attempt>>

SearchFrame == UNCHANGED <<argVars, parseVars, articleVars, disk, textVars, log>>

\* the response carries QueryKey and WebEnv
SearchOk ==
    /\ pc = "search_loop" /\ attempt < max_retries
    /\ requests' = requests + 1
    /\ session' = <<"1", "NCID_1">>
    /\ pc' = "fetch"
    /\ fault' = ""
    /\ UNCHANGED <<attempt, retry_delay, sleeps, raised, exit_code>>
    /\ SearchFrame

\* a 200 response that is empty, is not XML, reports PhraseNotFound, or lacks
\* QueryKey or WebEnv: raised inside the try, caught by none of its clauses
SearchBadPayload ==
    /\ pc = "search_loop" /\ attempt < max_retries
    /\ \E kind \in {"empty", "malformed_xml", "phrase_not_found", "no_session"} :
          /\ fault' = kind
          /\ Exit(IF kind = "malformed_xml" THEN "DataProcessingError" ELSE "PubMedAPIError")
    /\ requests' = requests + 1
    /\ UNCHANGED searchVars
    /\ SearchFrame

\* requests.Timeout or requests.ConnectionError
SearchTransient ==
    /\ pc = "search_loop" /\ attempt < max_retries
    /\ \E kind \in {"timeout", "connection"} : fault' = kind
    /\ requests' = requests + 1
    /\ RetryOrRaise(retry_delay, retry_delay * 2, "NetworkError")
    /\ UNCHANGED session
    /\ SearchFrame

\* bool(response) is response.ok: False for the 4xx and 5xx statuses that
\* raise_for_status raises on
ResponseTruthy(status) == status < 400

\* requests.HTTPError from raise_for_status.  `e.response.status_code if
\* e.response else "Unknown"`; with "Unknown", `status_code >= 500` raises TypeError
SearchHTTPError ==
    /\ pc = "search_loop" /\ attempt < max_retries
    /\ \E status \in {404, 429, 503} :
          /\ fault' = "http"
          /\ IF ~ResponseTruthy(status)
             THEN Exit("TypeError") /\ UNCHANGED <<sleeps, retry_delay, attempt>>
             ELSE IF status = 429
             THEN RetryOrRaise(retry_delay * 2, retry_delay, "PubMedAPIError")
             ELSE IF status >= 500
             THEN RetryOrRaise(retry_delay, retry_delay * 2, "PubMedAPIError")
             ELSE Exit("PubMedAPIError") /\ UNCHANGED <<sleeps, retry_delay, attempt>>
    /\ requests' = requests + 1
    /\ UNCHANGED session
    /\ SearchFrame

\* any other requests.RequestException
SearchRequestException ==
    /\ pc = "search_loop" /\ attempt < max_retries
    /\ fault' = "request"
    /\ requests' = requests + 1
    /\ Exit("NetworkError")
    /\ UNCHANGED searchVars
    /\ SearchFrame

(***************************************************************************)
(* pubmed_client.py: fetch_details.  One request, no loop; both except     *)
(* clauses raise PubMedAPIError.                                           *)
(***************************************************************************)
FetchFrame == UNCHANGED <<argVars, searchVars, articleVars, disk, textVars, log>>

\* the response is well-formed XML: _parse_xml_response starts on it
FetchOk ==
    /\ pc = "fetch"
    /\ \E d \in BatchDocs : doc' = d
    /\ requests' = requests + 1
    /\ results' = <<>>
    /\ ai' = 1
    /\ pc' = "articles"
    /\ UNCHANGED <<fault, raised, exit_code>>
    /\ FetchFrame

\* ET.fromstring raises ParseError
FetchMalformedXml ==
    /\ pc = "fetch"
    /\ requests' = requests + 1
    /\ fault' = "malformed_xml"
    /\ Exit("PubMedAPIError")
    /\ UNCHANGED parseVars
    /\ FetchFrame

\* session.get or raise_for_status raises a requests.RequestException
FetchRequestException ==
    /\ pc = "fetch"
    /\ \E kind \in {"timeout", "connection", "http", "request"} : fault' = kind
    /\ requests' = requests + 1
    /\ Exit("PubMedAPIError")
    /\ UNCHANGED parseVars
    /\ FetchFrame

\* Ctrl-C while the run waits for the network
Interrupt ==
    /\ pc \in {"search_loop", "fetch"}
    /\ fault' = "interrupt"
    /\ Exit("KeyboardInterrupt")
    /\ UNCHANGED <<argVars, searchVars, requests, parseVars, articleVars, disk, textVars, log>>

(***************************************************************************)
(* pubmed_client.py: _parse_xml_response and _extract_article_data, one    *)
(* step per loop iteration                                                 *)
(***************************************************************************)
ParseFrame == UNCHANGED <<argVars, searchVars, requests, disk, fault, textVars>>

\* the article loop takes the next PubmedArticle: _extract_article_data up to
\* its author loop
ArticleBegin ==
    /\ pc = "articles" /\ ai <= Len(doc)
    /\ LET article == doc[ai]
       IN /\ pmid' = OrElse(article.pmid, "N/A")
          /\ title' = clean_title(article.title)
          /\ pub_date' = format_publication_date(DatePart(article.pubdate, "Year"),
                                                 DatePart(article.pubdate, "Month"),
                                                 DatePart(article.pubdate, "Day"))
    /\ non_academic_authors' = <<>>
    /\ affiliations' = <<>>
    /\ corresponding_email' = ""
    /\ ui' = 1
    /\ pc' = "authors"
    /\ UNCHANGED <<parseVars, raised, exit_code, log>>
    /\ ParseFrame

\* one iteration of the author loop; an AttributeError of _extract_author_data
\* is caught nowhere below main
AuthorStep ==
    /\ pc = "authors" /\ ui <= Len(doc[ai].authors)
    /\ LET author == doc[ai].authors[ui]
       IN IF AuthorRaises(author)
          THEN /\ Exit("AttributeError")
               /\ UNCHANGED articleVars
          ELSE LET author_data == _extract_author_data(author)
               IN /\ corresponding_email' = NextEmail(corresponding_email, author_data)
                  /\ non_academic_authors' = NextAuthors(non_academic_authors, author_data)
                  /\ affiliations' = NextAffiliations(affiliations, author_data)
                  /\ ui' = ui + 1
                  /\ UNCHANGED <<pmid, title, pub_date, pc, raised, exit_code>>
    /\ UNCHANGED <<parseVars, log>>
    /\ ParseFrame

\* `if article_data["non_academic_authors"]`
KeepArticle(names) == names # <<>>

\* _extract_article_data returns; the record is appended if the article is kept
ArticleEnd ==
    /\ pc = "authors" /\ ui > Len(doc[ai].authors)
    /\ results' = IF KeepArticle(non_academic_authors)
                  THEN Append(results, ResultRecord(pmid, title, pub_date, non_academic_authors,
                                                    affiliations, corresponding_email))
                  ELSE results
    /\ ai' = ai + 1
    /\ pc' = "articles"
    /\ UNCHANGED <<doc, articleVars, raised, exit_code, log>>
    /\ ParseFrame

\* the article loop is over: fetch_details returns results to main
ParseReturn ==
    /\ pc = "articles" /\ ai > Len(doc)
    /\ pc' = "write"
    /\ log' = Append(log, [doc |-> doc, results |-> results])
    /\ UNCHANGED <<parseVars, articleVars, raised, exit_code>>
    /\ ParseFrame

(***************************************************************************)
(* output.py                                                               *)
(***************************************************************************)
\* the validation loop of write_csv: invalid articles are skipped
RECURSIVE ValidatedResults(_)
ValidatedResults(rs) ==
    IF rs = <<>> THEN <<>>
    ELSE IF ArticleDataValid(Head(rs))
         THEN <<validate_article_data(Head(rs))>> \o ValidatedResults(Tail(rs))
         ELSE ValidatedResults(Tail(rs))

\* csv.DictWriter(fieldnames=CSV_FIELDNAMES).writerow: the values in column order
CsvRow(a) ==
    << a.PubmedID, a.Title, a.PublicationDate, a.NonAcademicAuthors,
       a.CompanyAffiliations, a.CorrespondingAuthorEmail >>

RECURSIVE CsvRows(_)
CsvRows(rs) == IF rs = <<>> THEN <<>> ELSE <<CsvRow(Head(rs))>> \o CsvRows(Tail(rs))

CsvFile(rs) == [kind |-> "csv", rows |-> <<CSV_FIELDNAMES>> \o CsvRows(rs)]
JsonFile(rs) == [kind |-> "json", rows |-> rs]
\* a file opened with mode "w" whose write then failed
TruncatedFile == [kind |-> "truncated", rows |-> <<>>]

WriteFrame ==
    UNCHANGED <<argVars, searchVars, requests, parseVars, articleVars, textVars, log>>

\* write_csv returns early: nothing to save
\* a plausible slip: the early returns left out, a file with the header alone
\* is written
WriteCsvHeaderOnly ==
    /\ pc = "write" /\ format # "json"
    /\ FilenameValid(file)
    /\ results = <<>> \/ ValidatedResults(results) = <<>>
    /\ disk' = <<CsvFile(<<>>)>>
    /\ ExitSuccess
    /\ UNCHANGED fault
    /\ WriteFrame

WriteCsvNothing ==
    /\ pc = "write" /\ format # "json"
    /\ FilenameValid(file)
    /\ results = <<>> \/ ValidatedResults(results) = <<>>
    /\ ExitSuccess
    /\ UNCHANGED <<disk, fault>>
    /\ WriteFrame

WriteCsvOk ==
    /\ pc = "write" /\ format # "json"
    /\ FilenameValid(file)
    /\ ValidatedResults(results) # <<>>
    /\ disk' = <<CsvFile(ValidatedResults(results))>>
    /\ ExitSuccess
    /\ UNCHANGED fault
    /\ WriteFrame

\* the file is not writable, or open or the write raises: every except clause
\* of write_csv raises OutputError
WriteCsvFails ==
    /\ pc = "write" /\ format # "json"
    /\ FilenameValid(file)
    /\ ValidatedResults(results) # <<>>
    /\ \E kind \in {"permission", "os_error", "encoding"} :
          /\ fault' = kind
          /\ disk' = IF kind = "permission" THEN disk ELSE <<TruncatedFile>>
    /\ Exit("OutputError")
    /\ WriteFrame

WriteJsonOk ==
    /\ pc = "write" /\ format = "json"
    /\ disk' = <<JsonFile(results)>>
    /\ ExitSuccess
    /\ UNCHANGED fault
    /\ WriteFrame

\* the except clause of write_json prints and re-raises the exception as it is
WriteJsonFails ==
    /\ pc = "write" /\ format = "json"
    /\ \E kind \in {"permission", "os_error", "encoding"} :
          /\ fault' = kind
          /\ disk' = IF kind = "permission" THEN disk ELSE <<TruncatedFile>>
          /\ Exit(CASE kind = "permission" -> "PermissionError"
                    [] kind = "os_error" -> "OSError"
                    [] OTHER -> "UnicodeEncodeError")
    /\ WriteFrame

(***************************************************************************)
(* The command line run                                                    *)
(***************************************************************************)
Next ==
    \/ MainValidate
    \/ SearchBegin
    \/ SearchOk
    \/ SearchBadPayload
    \/ SearchTransient
    \/ SearchHTTPError
    \/ SearchRequestException
    \/ FetchOk
    \/ FetchMalformedXml
    \/ FetchRequestException
    \/ Interrupt
    \/ ArticleBegin
    \/ AuthorStep
    \/ ArticleEnd
    \/ ParseReturn
    \/ WriteCsvNothing
    \/ WriteCsvOk
    \/ WriteCsvFails
    \/ WriteJsonOk
    \/ WriteJsonFails

Spec == Init /\ [][Next]_vars

(***************************************************************************)
(* The text utilities on their own                                         *)
(***************************************************************************)
InitText ==
    /\ pc = "text"
    /\ arg \in TextInputs
    /\ called = "none" /\ ret = <<>>
    /\ query = "" /\ file = "" /\ format = ""
    /\ disk = <<>>
    /\ Idle

TextFrame ==
    UNCHANGED <<pc, argVars, searchVars, requests, parseVars, articleVars, disk, fault,
                raised, exit_code, log, arg>>

CallIsAcademic ==
    /\ pc = "text" /\ called = "none"
    /\ called' = "is_academic_affiliation"
    /\ ret' = <<is_academic_affiliation(arg)>>
    /\ TextFrame

CallExtractEmail ==
    /\ pc = "text" /\ called = "none"
    /\ called' = "extract_email"
    /\ ret' = <<extract_email(arg)>>
    /\ TextFrame

NextText == CallIsAcademic \/ CallExtractEmail

SpecText == InitText /\ [][NextText]_vars

(***************************************************************************)
(* _parse_xml_response on its own: the run at the point where the fetch    *)
(* request has returned well-formed XML, for every document of ParseDocs.  *)
(***************************************************************************)
InitParse ==
    /\ pc = "articles"
    /\ doc \in ParseDocs
    /\ ai = 1 /\ results = <<>>
    /\ query = "flu" /\ file = "out.csv" /\ format = "csv"
    /\ attempt = 0 /\ retry_delay = INITIAL_RETRY_DELAY /\ sleeps = <<>>
    /\ session = <<"1", "NCID_1">> /\ requests = 2
    /\ ui = 0 /\ pmid = "" /\ title = "" /\ pub_date = ""
    /\ non_academic_authors = <<>> /\ affiliations = <<>> /\ corresponding_email = ""
    /\ disk = <<>>
    /\ fault = "" /\ raised = "" /\ exit_code = -1 /\ log = <<>>
    /\ arg = "" /\ called = "none" /\ ret = <<>>

NextParse == ArticleBegin \/ AuthorStep \/ ArticleEnd \/ ParseReturn

SpecParse == InitParse /\ [][NextParse]_vars

(***************************************************************************)
(* _parse_xml_response called again and again on one client, as by a       *)
(* caller that fetches several batches: every call builds its tree and its *)
(* result list anew.                                                       *)
(***************************************************************************)
ReparseDocs ==
    { <<>>,
      <<Article(<<"1">>, <<"T1">>, <<>>, <<Industry>>)>>,
      <<Article(<<"2">>, <<"T2">>, <<>>, <<Academic>>)>>,
      <<Article(<<"1">>, <<"T1">>, <<>>, <<Industry>>),
        Article(<<"6">>, <<"T6">>, <<>>, <<Second, Nameless>>)>>,
      <<Article(<<"3">>, <<"T3">>, <<>>, <<NoText>>)>> }

\* a plausible slip: the result list kept on the client and never emptied
ParseCallKeepsResults ==
    /\ pc = "write" /\ Len(log) < MaxParses
    /\ \E d \in ReparseDocs : doc' = d
    /\ ai' = 1
    /\ pc' = "articles"
    /\ UNCHANGED <<results, articleVars, raised, exit_code, log>>
    /\ ParseFrame

\* the next call after a return: `root = ET.fromstring(xml_content)`,
\* `results = []`, and the article loop is entered
ParseCall ==
    /\ pc = "write" /\ Len(log) < MaxParses
    /\ \E d \in ReparseDocs : doc' = d
    /\ results' = <<>>
    /\ ai' = 1
    /\ pc' = "articles"
    /\ UNCHANGED <<articleVars, raised, exit_code, log>>
    /\ ParseFrame

InitReparse ==
    /\ InitParse
    /\ doc \in ReparseDocs

NextReparse == NextParse \/ ParseCall

SpecReparse == InitReparse /\ [][NextReparse]_vars

(***************************************************************************)
(* What the specification says of a document, stated without the code's    *)
(* loops: used by the properties below.                                    *)
(***************************************************************************)
\* the text without its leading and trailing whitespace
Trimmed(text) ==
    LET kept == {i \in 1..Len(text) : Char(text, i) \notin Whitespace}
    IN IF kept = {} THEN ""
       ELSE SubSeq(text, CHOOSE i \in kept : \A j \in kept : i <= j,
                         CHOOSE i \in kept : \A j \in kept : i >= j)

\* some keyword occurs in the text at some position, letter case ignored
HasAcademicKeyword(text) ==
    \E k \in 1..Len(ACADEMIC_KEYWORDS) :
        LET kw == ACADEMIC_KEYWORDS[k]
        IN \E i \in 1..Len(text) :
              /\ i + Len(kw) - 1 <= Len(text)
              /\ \A j \in 1..Len(kw) : ToLowerChar(Char(text, i + j - 1)) = Char(kw, j)

\* the whitespace-separated tokens of the text, as <<first, last>> positions
Tokens(text) ==
    {t \in (1..Len(text)) \X (1..Len(text)) :
        /\ t[1] <= t[2]
        /\ \A i \in t[1]..t[2] : Char(text, i) \notin Whitespace
        /\ t[1] = 1 \/ Char(text, t[1] - 1) \in Whitespace
        /\ t[2] = Len(text) \/ Char(text, t[2] + 1) \in Whitespace}

EmailTokens(text) ==
    {t \in Tokens(text) : /\ \E i \in t[1]..t[2] : Char(text, i) = "@"
                          /\ \E i \in t[1]..t[2] : Char(text, i) = "."}

\* the first token with '@' and '.', without its surrounding punctuation
FirstEmailIn(text) ==
    IF EmailTokens(text) = {} THEN ""
    ELSE LET t == CHOOSE t \in EmailTokens(text) : \A u \in EmailTokens(text) : t[1] <= u[1]
             core == {i \in t[1]..t[2] : Char(text, i) \notin EmailStripChars}
         IN IF core = {} THEN ""
            ELSE SubSeq(text, CHOOSE i \in core : \A j \in core : i <= j,
                              CHOOSE i \in core : \A j \in core : i >= j)

\* the trimmed text of the author's first Affiliation element, "" if there is none
AffiliationOf(author) ==
    IF author.affils = <<>> \/ author.affils[1] = <<>> THEN ""
    ELSE Trimmed(author.affils[1][1])

NameOf(author) ==
    Trimmed((IF author.fore = <<>> THEN "" ELSE author.fore[1]) \o " "
            \o (IF author.last = <<>> THEN "" ELSE author.last[1]))

EmailOf(author) == FirstEmailIn(AffiliationOf(author))

NonAcademicAuthor(author) ==
    AffiliationOf(author) # "" /\ ~HasAcademicKeyword(AffiliationOf(author))

Qualifies(article) ==
    \E i \in 1..Len(article.authors) : NonAcademicAuthor(article.authors[i])

NamesOf(article) ==
    LET q == SelectSeq(article.authors, NonAcademicAuthor)
    IN [i \in 1..Len(q) |-> NameOf(q[i])]

AffiliationsOf(article) ==
    LET q == SelectSeq(article.authors, NonAcademicAuthor)
    IN [i \in 1..Len(q) |-> AffiliationOf(q[i])]

\* the first email among the first n authors, "" if none has one
FirstEmailAmong(authors, n) ==
    LET with == {i \in 1..n : EmailOf(authors[i]) # ""}
    IN IF with = {} THEN ""
       ELSE EmailOf(authors[CHOOSE i \in with : \A j \in with : i <= j])

\* the parse of the document has ended, by a return or by an exception
ParseReturned == pc = "write"
ParseRaised == pc = "done" /\ raised = "AttributeError"

(***************************************************************************)
(* C1: for every well-formed document _parse_xml_response returns one      *)
(* record for each article with a non-academic author, none for any other  *)
(* article, in document order.                                             *)
(***************************************************************************)
RecordsMatchQualifying ==
    LET kept == SelectSeq(doc, Qualifies)
    IN /\ Len(results) = Len(kept)
       /\ \A i \in 1..Len(kept) :
             /\ results[i].PubmedID = (IF kept[i].pmid \in {<<>>, <<"">>} THEN "N/A"
                                       ELSE kept[i].pmid[1])
             /\ results[i].NonAcademicAuthors = join("; ", NamesOf(kept[i]))
             /\ results[i].CompanyAffiliations = join("; ", AffiliationsOf(kept[i]))

C1_ParseReturnsQualifyingArticles ==
    /\ ~ParseRaised
    /\ ParseReturned => RecordsMatchQualifying

\* apart from the exception, the claim of C1 holds of every parse that returns
C1_ReturnedRecordsQualify == ParseReturned => RecordsMatchQualifying

(***************************************************************************)
(* C2: at every step of the author loop, and in the result, the names and  *)
(* the affiliations recorded have the same length, and entry i of both     *)
(* comes from the i-th non-academic author processed so far, in document   *)
(* order.                                                                  *)
(***************************************************************************)
C2_ListsAligned ==
    pc = "authors" =>
        LET seen == SubSeq(doc[ai].authors, 1, ui - 1)
            q == SelectSeq(seen, NonAcademicAuthor)
        IN /\ Len(non_academic_authors) = Len(affiliations)
           /\ Len(non_academic_authors) = Len(q)
           /\ \A i \in 1..Len(q) :
                 /\ non_academic_authors[i] = NameOf(q[i])
                 /\ affiliations[i] = AffiliationOf(q[i])

\* the second author is listed first, after an author that is not listed
C2_Witness ==
    /\ pc = "authors" /\ ui = 3
    /\ ~NonAcademicAuthor(doc[ai].authors[1])
    /\ AffiliationOf(doc[ai].authors[1]) # ""
    /\ Len(non_academic_authors) = 1
    /\ affiliations = <<AffiliationOf(doc[ai].authors[2])>>

(***************************************************************************)
(* C3: is_academic_affiliation is true iff the lower-cased text contains a *)
(* keyword of ACADEMIC_KEYWORDS as a substring.                            *)
(***************************************************************************)
C3_ClassifierIsKeywordSubstring ==
    called = "is_academic_affiliation" => ret = <<HasAcademicKeyword(arg)>>

\* a keyword inside a longer word, in mixed case
C3_Witness ==
    /\ called = "is_academic_affiliation"
    /\ ret = <<TRUE>>
    /\ Len(arg) > 3
    /\ \E i \in 1..Len(arg) : Char(arg, i) = "L"
    /\ \A i \in 1..Len(arg) : Char(arg, i) # " "

(***************************************************************************)
(* C4: corresponding_email is the email of the first author, academic or   *)
(* not, whose affiliation yields one; once set in the author loop it is    *)
(* not overwritten; it is empty iff no author yields an email.             *)
(***************************************************************************)
EmailIsFirstFound ==
    pc = "authors" =>
        /\ corresponding_email = FirstEmailAmong(doc[ai].authors, ui - 1)
        /\ corresponding_email = "" <=>
               \A i \in 1..ui - 1 : EmailOf(doc[ai].authors[i]) = ""

EmailKept ==
    (pc = "authors" /\ pc' = "authors" /\ corresponding_email # "")
        => corresponding_email' = corresponding_email

C4_FirstEmailWins == []EmailIsFirstFound /\ [][EmailKept]_vars

\* an academic first author sets the email and a later, listed author has another
C4_Witness ==
    /\ pc = "authors" /\ ui = 3
    /\ ~NonAcademicAuthor(doc[ai].authors[1])
    /\ NonAcademicAuthor(doc[ai].authors[2])
    /\ EmailOf(doc[ai].authors[2]) # ""
    /\ corresponding_email = EmailOf(doc[ai].authors[1])
    /\ corresponding_email # EmailOf(doc[ai].authors[2])

RECURSIVE SplitOn(_, _)
SplitOn(s, sep) ==
    LET hits == {i \in 1..Len(s) - Len(sep) + 1 : SubSeq(s, i, i + Len(sep) - 1) = sep}
    IN IF hits = {} THEN <<s>>
       ELSE LET i == CHOOSE i \in hits : \A j \in hits : i <= j
            IN <<SubSeq(s, 1, i - 1)>> \o SplitOn(SubSeq(s, i + Len(sep), Len(s)), sep)

C6_CsvRoundTrip ==
    (pc = "done" /\ exit_code = 0 /\ format = "csv" /\ results # <<>>) =>
        LET kept == SelectSeq(doc, Qualifies)
        IN /\ disk # <<>>
           /\ disk[1].kind = "csv"
           /\ Len(disk[1].rows) = Len(kept) + 1
           /\ \A i \in 1..Len(kept) :
                 /\ SplitOn(disk[1].rows[i + 1][4], "; ") = NamesOf(kept[i])
                 /\ SplitOn(disk[1].rows[i + 1][5], "; ") = AffiliationsOf(kept[i])

(***************************************************************************)
(* C7: a missing or empty sub-field of an article or author, an            *)
(* Affiliation element without text included, never raises, and the parse  *)
(* returns the records of every qualifying article of the document.        *)
(***************************************************************************)
C7_SubFieldsNeverRaise ==
    /\ raised # "AttributeError"
    /\ ParseReturned => Len(results) = Len(SelectSeq(doc, Qualifies))

(***************************************************************************)
(* C8: XML of the fetch call that is not well-formed is reported as a      *)
(* DataProcessingError, exit code 5, with no record and no second request. *)
(***************************************************************************)
C8_MalformedFetchIsProcessingError ==
    (pc = "done" /\ fault = "malformed_xml" /\ session # <<>>) =>
        /\ raised = "DataProcessingError"
        /\ exit_code = 5
        /\ results = <<>>
        /\ requests = attempt + 2

(***************************************************************************)
(* C9: a connectivity failure or timeout ends the run with exit code 3,    *)
(* in the search call and in the fetch call.                               *)
(***************************************************************************)
C9_NetworkFailureExits3 ==
    (pc = "done" /\ fault \in {"timeout", "connection"}) => exit_code = 3

(***************************************************************************)
(* C10: a filesystem, permission or encoding failure while the output file *)
(* is written ends the run with exit code 6, for csv and for json.         *)
(***************************************************************************)
C10_OutputFailureExits6 ==
    (pc = "done" /\ fault \in {"permission", "os_error", "encoding"}) => exit_code = 6

(***************************************************************************)
(* C11: the file write_csv writes holds the header row followed by exactly *)
(* one row per record of the list it was handed, in the same order.        *)
(***************************************************************************)
\* the row of the file that stands for a record: its fields, trimmed
RowStandsFor(row, record) ==
    /\ row[1] = Trimmed(record.PubmedID)
    /\ row[2] = Trimmed(record.Title)
    /\ row[3] = Trimmed(record.PublicationDate)
    /\ row[4] = Trimmed(record.NonAcademicAuthors)
    /\ row[5] = Trimmed(record.CompanyAffiliations)

CsvWritten ==
    /\ pc = "done" /\ exit_code = 0 /\ format = "csv"
    /\ disk # <<>> /\ disk[1].kind = "csv"

PmidAccepted(record) ==
    LET id == Trimmed(record.PubmedID)
    IN \/ id = "N/A"
       \/ id # "" /\ \A i \in 1..Len(id) :
                        Char(id, i) \in {"0", "1", "2", "3", "4", "5", "6", "7", "8", "9"}

StepOf(position) ==
    CASE position = "main" -> 1
      [] position \in {"search", "search_loop"} -> 2
      [] position \in {"fetch", "articles", "authors"} -> 3
      [] position = "write" -> 4
      [] OTHER -> 5

StepsInOrder ==
    /\ pc # "done"
    /\ StepOf(pc') \in {StepOf(pc), StepOf(pc) + 1, 5}
    /\ raised' # "" => pc' = "done" /\ exit_code' > 0
    \* no request before the arguments were found valid
    /\ requests' # requests =>
          /\ StepOf(pc) \in {2, 3}
          /\ QueryValid(query) /\ FilenameValid(file) /\ FormatValid(format)
    \* fetch starts, and its request is issued, with both session identifiers
    /\ StepOf(pc') = 3 => Len(session') = 2
    /\ (StepOf(pc) = 3 /\ requests' # requests) => Len(session) = 2
    /\ StepOf(pc) < 3 => doc' = doc /\ results' = results
    \* the writer runs after fetch has returned, and only the writer writes
    /\ pc' = "write" => pc = "articles" /\ ai > Len(doc)
    /\ disk' # disk => pc = "write"
    /\ raised' = "ValidationError" =>
          /\ pc = "main" /\ exit_code' = 2
          /\ requests' = 0 /\ session' = <<>> /\ disk' = disk

InSearch == pc = "search_loop"
SearchReturned == pc = "fetch"
SearchRaised == pc = "done" /\ session = <<>> /\ raised \notin {"", "ValidationError"}

SearchRequestsBounded ==
    /\ InSearch => requests = attempt /\ attempt < 3
    /\ (SearchReturned \/ SearchRaised) => requests <= 3
    /\ SearchReturned => Len(session) = 2 /\ requests >= 1

SearchPassEnds ==
    InSearch =>
        \/ raised' = "KeyboardInterrupt" /\ requests' = requests
        \/ /\ requests' = requests + 1
           /\ \/ SearchReturned'
              \/ SearchRaised'
              \/ InSearch' /\ attempt' = attempt + 1

C13_SearchTerminates == []SearchRequestsBounded /\ [][SearchPassEnds]_vars

\* search returns at its third request
C13_Witness == SearchReturned /\ requests = 3

(***************************************************************************)
(* C14: a timeout or connection error of the fetch call is retried with    *)
(* backoff, as in search: the error is reported only after the 3 attempts  *)
(* of the cap, with a sleep between them.                                  *)
(***************************************************************************)
\* requests of the fetch call: all requests but the attempt + 1 of search
FetchRequests == requests - (attempt + 1)

C14_FetchTransientRetried ==
    (pc = "done" /\ Len(session) = 2 /\ fault \in {"timeout", "connection"}) =>
        /\ FetchRequests = 3
        /\ Len(sleeps) >= attempt + 2

(***************************************************************************)
(* C15: two parses of the same document return the same list of records,   *)
(* whatever was parsed before or between them; every parse starts from an  *)
(* empty result list.                                                      *)
(***************************************************************************)
C15_SameDocumentSameRecords ==
    /\ \A i, j \in 1..Len(log) :
          log[i].doc = log[j].doc => log[i].results = log[j].results
    /\ (pc = "articles" /\ ai = 1) => results = <<>>

\* a document parsed, another one parsed, the first one parsed again
C15_Witness ==
    /\ Len(log) = 3
    /\ log[1].doc = log[3].doc /\ log[2].doc # log[1].doc
    /\ log[1].results # <<>> /\ log[2].results # <<>>

(***************************************************************************)
(* C16: the publication date of every article is empty or of the form      *)
(* YYYY, YYYY-MM or YYYY-MM-DD: when it is not empty it begins with the    *)
(* year, a month follows only a year and a day only a month, and no dash   *)
(* leads or trails it.                                                     *)
(***************************************************************************)
\* the text of a component of the article's PubDate, "" if it is missing
ComponentOf(article, part) ==
    IF article.pubdate = <<>> THEN ""
    ELSE IF article.pubdate[1][part] = <<>> THEN ""
    ELSE article.pubdate[1][part][1]

\* the date of the article being extracted is in place
DateExtracted == pc = "authors"

C16_DateStartsWithYear ==
    DateExtracted =>
        LET year == ComponentOf(doc[ai], "year")
            month == ComponentOf(doc[ai], "month")
            day == ComponentOf(doc[ai], "day")
        IN \/ pub_date = ""
           \/ /\ year # ""
              /\ \/ pub_date = year
                 \/ month # "" /\ pub_date = year \o "-" \o month
                 \/ month # "" /\ day # ""
                       /\ pub_date = year \o "-" \o month \o "-" \o day

(***************************************************************************)
(* C17: the title of a record is the trimmed text of the article's         *)
(* ArticleTitle when that is not empty, and "N/A" when the element is      *)
(* missing or its text is empty; it is never the empty string.             *)
(***************************************************************************)
ExpectedTitle(article) ==
    IF article.title = <<>> THEN "N/A"
    ELSE IF Trimmed(article.title[1]) = "" THEN "N/A"
    ELSE Trimmed(article.title[1])

C17_TitleOrSentinel ==
    /\ pc = "authors" => title = ExpectedTitle(doc[ai]) /\ title # ""
    /\ \A i \in 1..Len(results) : results[i].Title # ""

(***************************************************************************)
(* C18: in search, after attempts that failed with a timeout or a          *)
(* connection error the client has slept 1 second after the first and 2    *)
(* seconds after the second; the third failure raises NetworkError; an     *)
(* attempt k <= 3 that succeeds returns at once, after k requests and      *)
(* k - 1 sleeps, and search issues no further request.                     *)
(***************************************************************************)
Backoff == <<1, 2>>

SearchBacksOff ==
    /\ InSearch => sleeps = SubSeq(Backoff, 1, attempt) /\ requests = attempt
    /\ (SearchRaised /\ fault \in {"timeout", "connection"}) =>
          /\ raised = "NetworkError"
          /\ requests = 3
          /\ sleeps = Backoff
    /\ SearchReturned =>
          /\ requests \in 1..3
          /\ sleeps = SubSeq(Backoff, 1, requests - 1)

SuccessReturnsAtOnce ==
    /\ (InSearch /\ SearchReturned') => requests' = requests + 1 /\ sleeps' = sleeps
    /\ Len(session) = 2 => sleeps' = sleeps /\ requests' \in {requests, requests + 1}
    /\ (Len(session) = 2 /\ requests' # requests) => pc = "fetch"

C18_SearchBackoff == []SearchBacksOff /\ [][SuccessReturnsAtOnce]_vars

\* three failed attempts
C18_Witness ==
    /\ SearchRaised /\ raised = "NetworkError" /\ fault \in {"timeout", "connection"}
    /\ sleeps = <<1, 2>> /\ requests = 3

(***************************************************************************)
(* C19: an HTTP error status of the search endpoint, retried (429, 5xx) or *)
(* not (other 4xx), ends search with PubMedAPIError, and the run with exit *)
(* code 4.                                                                 *)
(***************************************************************************)
C19_HttpErrorExits4 ==
    (SearchRaised /\ fault = "http") =>
        /\ raised = "PubMedAPIError"
        /\ exit_code = 4

(***************************************************************************)
(* C20: an author whose affiliation is missing, or empty once trimmed,     *)
(* adds nothing to the names and nothing to the affiliations of the        *)
(* article and never provides its corresponding email, whatever the        *)
(* author's names are.                                                     *)
(***************************************************************************)
\* the author loop stands before an author without affiliation
AtUnaffiliatedAuthor ==
    /\ pc = "authors"
    /\ ui <= Len(doc[ai].authors)
    /\ AffiliationOf(doc[ai].authors[ui]) = ""

UnaffiliatedAuthorSkipped ==
    AtUnaffiliatedAuthor =>
        UNCHANGED <<non_academic_authors, affiliations, corresponding_email>>

\* nothing in the lists or the email is without an affiliated author behind it
OnlyAffiliatedAuthorsCount ==
    pc = "authors" =>
        LET affiliated ==
                {j \in 1..(ui - 1) : AffiliationOf(doc[ai].authors[j]) # ""}
        IN /\ Len(non_academic_authors) <= Cardinality(affiliated)
           /\ \A k \in 1..Len(affiliations) : affiliations[k] # ""
           /\ corresponding_email # "" =>
                 \E j \in affiliated : EmailOf(doc[ai].authors[j]) = corresponding_email

C20_EmptyAffiliationSkipped ==
    []OnlyAffiliatedAuthorsCount /\ [][UnaffiliatedAuthorSkipped]_vars

\* a named author without usable affiliation went through the loop after an
\* industry author
C20_Witness ==
    /\ pc = "authors" /\ ui = 3
    /\ AffiliationOf(doc[ai].authors[2]) = ""
    /\ NameOf(doc[ai].authors[2]) # ""
    /\ Len(non_academic_authors) = 1 /\ Len(affiliations) = 1

(***************************************************************************)
(* C21: of an author with several affiliations only the first decides the  *)
(* classification, the affiliation text stored and the email: an author    *)
(* whose first affiliation is academic and whose later one is not is not   *)
(* listed, and an email found only in a later affiliation is never used.   *)
(***************************************************************************)
\* the author loop stands before an author with more than one affiliation
AtMultiAffiliatedAuthor ==
    /\ pc = "authors"
    /\ ui <= Len(doc[ai].authors)
    /\ Len(doc[ai].authors[ui].affils) > 1

FirstAffiliationDecides ==
    AtMultiAffiliatedAuthor =>
        LET author == doc[ai].authors[ui]
            first == AffiliationOf(author)
            listed == first # "" /\ ~HasAcademicKeyword(first)
        IN /\ non_academic_authors' =
                 IF listed THEN Append(non_academic_authors, NameOf(author))
                 ELSE non_academic_authors
           /\ affiliations' =
                 IF listed THEN Append(affiliations, first) ELSE affiliations
           /\ corresponding_email' =
                 IF corresponding_email = "" THEN FirstEmailIn(first)
                 ELSE corresponding_email

C21_FirstAffiliationOnly == [][FirstAffiliationDecides]_vars

\* an author with an academic first and an industry second affiliation, the
\* second with an email, went through the loop: not listed, no email
C21_Witness ==
    /\ pc = "authors" /\ ui = 2
    /\ Len(doc[ai].authors[1].affils) = 2
    /\ HasAcademicKeyword(Trimmed(doc[ai].authors[1].affils[1][1]))
    /\ ~HasAcademicKeyword(Trimmed(doc[ai].authors[1].affils[2][1]))
    /\ FirstEmailIn(Trimmed(doc[ai].authors[1].affils[2][1])) # ""
    /\ non_academic_authors = <<>> /\ affiliations = <<>>
    /\ corresponding_email = ""

(***************************************************************************)
(* C22: write_csv handed an empty list, or a list of which no record       *)
(* passes validation, creates and changes no file and raises nothing; the  *)
(* run ends with exit code 0 and a file of the output name that existed    *)
(* keeps its content.                                                      *)
(***************************************************************************)
\* write_csv is about to run on a list without an accepted record
CsvWriterHasNothing ==
    /\ pc = "write" /\ format = "csv"
    /\ SelectSeq(results, PmidAccepted) = <<>>

NothingWritten ==
    CsvWriterHasNothing =>
        /\ disk' = disk
        /\ raised' = "" /\ fault' = ""
        /\ pc' = "done" /\ exit_code' = 0

C22_NothingToWriteKeepsFile == [][NothingWritten]_vars

\* a list whose only record fails validation, an older file in place
C22_Witness ==
    /\ pc = "done" /\ exit_code = 0 /\ format = "csv"
    /\ results # <<>> /\ SelectSeq(results, PmidAccepted) = <<>>
    /\ disk = <<OldFile>>

====
